---- MODULE Spec2Model ----
(***************************************************************************)
(* A model of DendroPy's taxon registry (dendropy/dataobject/taxon.py) and *)
(* of the NEWICK reader entry points and writer                            *)
(* (dendropy/dataio/newick.py).                                            *)
(*                                                                         *)
(* Python values are represented as follows.                               *)
(*   Taxon objects   : integers 1..MaxObj, in order of construction        *)
(*   a label         : a string; NoLabel stands for Python's None          *)
(*   an oid          : an integer; NoOid (0) stands for None, a caller     *)
(*                     supplied oid is in GivenOids, and the oid that      *)
(*                     IdTagged assigns to object k is DefaultOid(k)       *)
(*   clade_mask      : an integer; NoMask (-1) means the attribute is      *)
(*                     absent from the object                              *)
(*   a raised error  : a tag naming the raise statement in the source      *)
(*   written text    : a sequence of one-character strings                 *)
(*   a tree          : the sequence of its nodes in preorder               *)
(***************************************************************************)
EXTENDS Integers, Sequences, FiniteSets, TLC

\* ------------------------------------------------------------------ bounds
MaxObj == 2            \* Taxon objects constructed in one behaviour
MaxStmts == 2
MaxNodes == 3          \* statements in the stream given to tree_source_iter

\* ------------------------------------------------------- value conventions
NoLabel == "<None>"
Labels == {NoLabel, "A"}
NoOid == 0
GivenOids == {1}
Oids == {NoOid} \cup GivenOids
NoMask == 0 - 1
NoValue == 0 - 1       \* the call returned nothing (it raised)
PyNone == 0            \* the call returned None
NoErr == "ok"

DefaultOid(k) == 100 + k

Objs == 1..MaxObj

\* the error categories of the design, as sets of raise sites
LookupError == {"TaxonNotFound", "TaxonNotInSet", "ImmutableTaxonIndex"}
ConfigurationError == {"EncodeSplitsNeedsTaxonSet", "NoDataSet"}

\* ------------------------------------------------------ integer arithmetic
RECURSIVE Shl(_, _)
\* x << n
Shl(x, n) == IF n = 0 THEN x ELSE Shl(2 * x, n - 1)

\* ~x on Python's unbounded two's complement integers
BitNot(x) == (0 - x) - 1

RECURSIVE BitAnd(_, _)
\* x & y for y >= 0 (x of either sign: \div and % round to minus infinity)
BitAnd(x, y) ==
    IF y = 0 THEN 0
    ELSE ((x % 2) * (y % 2)) + 2 * BitAnd(x \div 2, y \div 2)

RECURSIVE BitOr(_, _)
\* x | y for x, y >= 0
BitOr(x, y) ==
    IF x = 0 THEN y
    ELSE IF y = 0 THEN x
    ELSE (IF (x % 2) + (y % 2) > 0 THEN 1 ELSE 0) + 2 * BitOr(x \div 2, y \div 2)

\* ------------------------------------------ the ordered-unique container
SeqContains(s, x) == \E i \in 1..Len(s) : s[i] = x

\* OrderedSet.add: append unless already present
OrderedSetAdd(s, x) == IF SeqContains(s, x) THEN s ELSE Append(s, x)

\* list.index, 0-based; the caller checks membership first
SeqIndex(s, x) == (CHOOSE i \in 1..Len(s) : s[i] = x) - 1

\* list.remove of the element at 1-based position i
RemoveAt(s, i) == SubSeq(s, 1, i - 1) \o SubSeq(s, i + 1, Len(s))

RECURSIVE ClearLoop(_, _)
\* "for t in self: self.remove(t)": the list iterator keeps a position, which
\* advances by one after each body while the list shrinks under it
ClearLoop(s, i) ==
    IF i > Len(s) THEN s ELSE ClearLoop(RemoveAt(s, i), i + 1)

\* --------------------------------------------------------------- variables
VARIABLES
    created,      \* number of Taxon objects constructed so far
    taxon,        \* taxon[k] = [label, oid, clade_mask] of object k
    taxa,         \* the TaxonSet: a sequence of distinct objects
    is_mutable,   \* TaxonSet._is_mutable
    call,         \* the last call: its name, arguments and outcome
    winLocked,    \* history: lock() was called, and since then neither
                  \*          unlock() nor an assignment to is_locked was
    gen,          \* the generator that tree_source_iter returns, with the
                  \*          stream and keyword arguments it was called with
    other,        \* a second TaxonSet, which may hold the same Taxon objects
    writer        \* a NewickWriter, the stream it wrote to and its last call

regVars == <<created, taxon, taxa, is_mutable>>
histVars == <<winLocked>>
ioVars == <<gen, writer>>
vars == <<created, taxon, taxa, is_mutable, call, winLocked, gen, other, writer>>

FreshTaxon == [label |-> NoLabel, oid |-> NoOid, clade_mask |-> NoMask]

NoRender == [kind |-> "none", left |-> <<>>, right |-> <<>>]

NoCall ==
    [op |-> "none", label |-> NoLabel, oid |-> NoOid, flag |-> FALSE,
     tx |-> 0, split |-> 0, ret |-> NoValue, err |-> NoErr,
     out |-> NoRender]

\* no call of tree_source_iter yet
NoGen ==
    [pc |-> "idle", stream |-> <<>>, taxon_set |-> "absent", encode_splits |-> "absent",
     pos |-> 0, eof |-> FALSE, yielded |-> <<>>, last |-> "none", err |-> NoErr]

\* no NewickWriter constructed yet
NoWriter ==
    [pc |-> "none", attached |-> FALSE, dataset |-> <<>>,
     edge_lengths |-> TRUE, internal_labels |-> TRUE,
     preserve_spaces |-> FALSE, quote_underscores |-> TRUE, exclude_trees |-> FALSE,
     before |-> <<>>, stream |-> <<>>, node |-> <<>>, ret |-> <<>>, err |-> NoErr]

\* the record of a call of the operation name
Called(name) == [NoCall EXCEPT !.op = name]

Init ==
    /\ created = 0
    /\ taxon = [k \in Objs |-> FreshTaxon]
    /\ taxa = <<>>
    /\ is_mutable = TRUE
    /\ call = NoCall
    /\ winLocked = FALSE
    /\ gen = NoGen
    /\ other = <<>>
    /\ writer = NoWriter

\* ------------------------------------------------------------- history
\* a call other than lock(), unlock() and the assignment to is_locked
KeepWindows == UNCHANGED <<histVars, ioVars, other>>

CloseWindows == winLocked' = FALSE /\ UNCHANGED <<ioVars, other>>

\* ------------------------------------------------------------ Taxon
\* Taxon.__init__: the object gets the label as given and the oid given or,
\* when none is given, the one IdTagged assigns
TaxonInit(k, label, oid) ==
    [label |-> label,
     oid |-> IF oid = NoOid THEN DefaultOid(k) ELSE oid,
     clade_mask |-> NoMask]

\* TaxonSet._to_taxon(s) for a string s: a client gets a Taxon(label=s) that
\* is in no TaxonSet yet
ToTaxon ==
    /\ created < MaxObj
    /\ \E label \in Labels \ {NoLabel} :
        /\ created' = created + 1
        /\ taxon' = [taxon EXCEPT ![created + 1] = TaxonInit(created + 1, label, NoOid)]
        /\ call' = [Called("_to_taxon") EXCEPT !.label = label, !.ret = created + 1]
    /\ UNCHANGED <<taxa, is_mutable>>
    /\ KeepWindows

\* ------------------------------------------------------------ TaxonSet
\* the test of get_taxon's loop: "taxon.oid == oid or taxon.label == label"
Matches(k, label, oid) == taxon[k].oid = oid \/ taxon[k].label = label

\* the positions (1-based) of the members the loop would return
MatchPositions(label, oid) == {i \in 1..Len(taxa) : Matches(taxa[i], label, oid)}

Min(S) == CHOOSE m \in S : \A n \in S : m <= n
Max(S) == CHOOSE m \in S : \A n \in S : m >= n

\* TaxonSet.get_taxon(label, taxon_required, oid)
GetTaxon(label, oid, taxon_required) ==
    LET update == is_mutable
        c == [Called("get_taxon") EXCEPT !.label = label, !.oid = oid, !.flag = taxon_required]
        hits == MatchPositions(label, oid)
        k == created + 1
    IN  /\ KeepWindows
        /\ UNCHANGED is_mutable
        /\ IF oid = NoOid /\ label = NoLabel
           THEN /\ call' = [c EXCEPT !.err = "NeedIdOrLabel"]
                /\ UNCHANGED <<created, taxon, taxa>>
           ELSE IF hits # {}
           THEN /\ call' = [c EXCEPT !.ret = taxa[Min(hits)]]
                /\ UNCHANGED <<created, taxon, taxa>>
           ELSE IF ~taxon_required
           THEN /\ call' = [c EXCEPT !.ret = PyNone]
                /\ UNCHANGED <<created, taxon, taxa>>
           ELSE IF ~update
           THEN /\ call' = [c EXCEPT !.err = "TaxonNotFound"]
                /\ UNCHANGED <<created, taxon, taxa>>
           ELSE /\ created < MaxObj
                /\ created' = k
                /\ taxon' = [taxon EXCEPT ![k] = TaxonInit(k, label, oid)]
                /\ taxa' = OrderedSetAdd(taxa, k)
                /\ call' = [c EXCEPT !.ret = k]

\* TaxonSet.add_taxon(taxon), for a Taxon object t the caller holds
AddTaxon(t) ==
    /\ t \in 1..created
    /\ taxa' = OrderedSetAdd(taxa, t)
    /\ call' = [Called("add_taxon") EXCEPT !.tx = t, !.ret = PyNone]
    /\ UNCHANGED <<created, taxon, is_mutable>>
    /\ KeepWindows

\* TaxonSet.new_taxon(label, error_if_label_exists=...), called as new_taxon_set
\* calls it: with no oid
NewTaxon(label, error_if_label_exists) ==
    LET oid == NoOid
        c == [Called("new_taxon") EXCEPT !.label = label, !.oid = oid, !.flag = error_if_label_exists]
        k == created + 1
    IN  /\ KeepWindows
        /\ UNCHANGED is_mutable
        /\ IF ~is_mutable
           THEN /\ call' = [c EXCEPT !.err = "ImmutableTaxonIndex"]
                /\ UNCHANGED <<created, taxon, taxa>>
           ELSE IF error_if_label_exists /\ label = NoLabel
           THEN \* get_taxon(label=label, taxon_required=False) is given no oid
                /\ call' = [c EXCEPT !.err = "NeedIdOrLabel"]
                /\ UNCHANGED <<created, taxon, taxa>>
           ELSE IF error_if_label_exists /\ MatchPositions(label, NoOid) # {}
           THEN /\ call' = [c EXCEPT !.err = "LabelAlreadyDefined"]
                /\ UNCHANGED <<created, taxon, taxa>>
           ELSE /\ created < MaxObj
                /\ created' = k
                /\ taxon' = [taxon EXCEPT ![k] = TaxonInit(k, label, oid)]
                /\ taxa' = OrderedSetAdd(taxa, k)
                /\ call' = [c EXCEPT !.ret = k]

\* TaxonSet.clear()
Clear ==
    /\ taxa' = ClearLoop(taxa, 1)
    /\ call' = [Called("clear") EXCEPT !.ret = PyNone]
    /\ UNCHANGED <<created, taxon, is_mutable>>
    /\ KeepWindows

\* TaxonSet.lock()
Lock ==
    /\ is_mutable' = FALSE
    /\ call' = [Called("lock") EXCEPT !.ret = PyNone]
    /\ UNCHANGED <<created, taxon, taxa>>
    /\ winLocked' = TRUE
    /\ UNCHANGED <<ioVars, other>>

\* TaxonSet.unlock()
Unlock ==
    /\ is_mutable' = TRUE
    /\ call' = [Called("unlock") EXCEPT !.ret = PyNone]
    /\ UNCHANGED <<created, taxon, taxa>>
    /\ CloseWindows

\* TaxonSet.get_is_locked(): the value the is_locked property reads as
get_is_locked == is_mutable

\* reading TaxonSet.is_locked
GetIsLocked ==
    /\ call' = [Called("get_is_locked") EXCEPT !.flag = get_is_locked]
    /\ UNCHANGED regVars
    /\ KeepWindows

\* TaxonSet.set_is_locked(v): the setter of the is_locked property
SetIsLocked(v) ==
    /\ is_mutable' = v
    /\ call' = [Called("set_is_locked") EXCEPT !.flag = v, !.ret = PyNone]
    /\ UNCHANGED <<created, taxon, taxa>>
    /\ CloseWindows

\* str(taxon.label)
Str(label) == IF label = NoLabel THEN "None" ELSE label

\* TaxonSet.labels(), as a value
labels(s) == [i \in 1..Len(s) |-> Str(taxon[s[i]].label)]

Labels_ ==
    /\ call' = [Called("labels") EXCEPT !.out = [kind |-> "labels", left |-> labels(taxa), right |-> <<>>]]
    /\ UNCHANGED regVars
    /\ KeepWindows

\* TaxonSet.all_taxa_bitmask(), as a value for a set of n taxa
all_taxa_bitmask(n) ==
    LET b == Shl(1, n)
    IN  b - 1

AllTaxaBitmask ==
    /\ call' = [Called("all_taxa_bitmask") EXCEPT !.ret = all_taxa_bitmask(Len(taxa))]
    /\ UNCHANGED regVars
    /\ KeepWindows

\* complement_split_bitmask with "-split" written for "~split"
complement_split_bitmask_negated(split, n) == BitAnd(0 - split, all_taxa_bitmask(n))

\* TaxonSet.complement_split_bitmask(split), as a value for a set of n taxa
complement_split_bitmask(split, n) == BitAnd(BitNot(split), all_taxa_bitmask(n))

ComplementSplitBitmask(split) ==
    /\ call' = [Called("complement_split_bitmask") EXCEPT
                   !.split = split, !.ret = complement_split_bitmask(split, Len(taxa))]
    /\ UNCHANGED regVars
    /\ KeepWindows

\* taxon_bitmask with "taxon.clade_mask = i" written for "taxon.clade_mask = m"
TaxonBitmask_caches_index(t) ==
    LET c == [Called("taxon_bitmask") EXCEPT !.tx = t]
        i == SeqIndex(taxa, t)
        m == Shl(1, i)
    IN  /\ t \in 1..created
        /\ UNCHANGED <<created, taxa, is_mutable>>
        /\ KeepWindows
        /\ IF taxon[t].clade_mask # NoMask
           THEN /\ call' = [c EXCEPT !.ret = taxon[t].clade_mask]
                /\ UNCHANGED taxon
           ELSE IF SeqContains(taxa, t)
           THEN /\ taxon' = [taxon EXCEPT ![t].clade_mask = i]
                /\ call' = [c EXCEPT !.ret = m]
           ELSE /\ call' = [c EXCEPT !.err = "TaxonNotInSet"]
                /\ UNCHANGED taxon

\* taxon_bitmask with the index taken as 1-based: "m = 1 << (i + 1)"
TaxonBitmask_one_based(t) ==
    LET c == [Called("taxon_bitmask") EXCEPT !.tx = t]
        i == SeqIndex(taxa, t)
        m == Shl(1, i + 1)
    IN  /\ t \in 1..created
        /\ UNCHANGED <<created, taxa, is_mutable>>
        /\ KeepWindows
        /\ IF taxon[t].clade_mask # NoMask
           THEN /\ call' = [c EXCEPT !.ret = taxon[t].clade_mask]
                /\ UNCHANGED taxon
           ELSE IF SeqContains(taxa, t)
           THEN /\ taxon' = [taxon EXCEPT ![t].clade_mask = m]
                /\ call' = [c EXCEPT !.ret = m]
           ELSE /\ call' = [c EXCEPT !.err = "TaxonNotInSet"]
                /\ UNCHANGED taxon

\* TaxonSet.taxon_bitmask(taxon), for a Taxon object t the caller holds
TaxonBitmask(t) ==
    LET c == [Called("taxon_bitmask") EXCEPT !.tx = t]
        i == SeqIndex(taxa, t)
        m == Shl(1, i)
    IN  /\ t \in 1..created
        /\ UNCHANGED <<created, taxa, is_mutable>>
        /\ KeepWindows
        /\ IF taxon[t].clade_mask # NoMask
           THEN /\ call' = [c EXCEPT !.ret = taxon[t].clade_mask]
                /\ UNCHANGED taxon
           ELSE IF SeqContains(taxa, t)
           THEN /\ taxon' = [taxon EXCEPT ![t].clade_mask = m]
                /\ call' = [c EXCEPT !.ret = m]
           ELSE /\ call' = [c EXCEPT !.err = "TaxonNotInSet"]
                /\ UNCHANGED taxon

\* ------------------------------------------------- a second TaxonSet
\* the sequences of distinct Taxon objects among the first n constructed
DistinctSeqs(n) ==
    {q \in UNION {[1..m -> 1..n] : m \in 0..n} :
        \A i, j \in 1..Len(q) : i # j => q[i] # q[j]}

\* other = TaxonSet(iterable) for an iterable of Taxon objects: _to_taxon
\* returns each Taxon object itself
OtherTaxonSet ==
    /\ \E q \in DistinctSeqs(created) : other' = q
    /\ call' = [Called("other.__init__") EXCEPT !.ret = PyNone]
    /\ UNCHANGED <<regVars, histVars, ioVars>>

\* other.add_taxon(taxon)
OtherAddTaxon(t) ==
    /\ t \in 1..created
    /\ other' = OrderedSetAdd(other, t)
    /\ call' = [Called("other.add_taxon") EXCEPT !.tx = t, !.ret = PyNone]
    /\ UNCHANGED <<regVars, histVars, ioVars>>

\* other.taxon_bitmask(taxon)
OtherTaxonBitmask(t) ==
    LET c == [Called("other.taxon_bitmask") EXCEPT !.tx = t]
        i == SeqIndex(other, t)
        m == Shl(1, i)
    IN  /\ t \in 1..created
        /\ UNCHANGED <<created, taxa, is_mutable, histVars, ioVars, other>>
        /\ IF taxon[t].clade_mask # NoMask
           THEN /\ call' = [c EXCEPT !.ret = taxon[t].clade_mask]
                /\ UNCHANGED taxon
           ELSE IF SeqContains(other, t)
           THEN /\ taxon' = [taxon EXCEPT ![t].clade_mask = m]
                /\ call' = [c EXCEPT !.ret = m]
           ELSE /\ call' = [c EXCEPT !.err = "TaxonNotInSet"]
                /\ UNCHANGED taxon

\* ------------------------------------------------ split_as_newick_string
\* the splits a caller may pass
Splits == 0..(Shl(1, MaxObj) - 1)

\* split_as_newick_string(split, taxon_set): line 93 reads the name
\* quote_underscores, which no scope defines, once per label; line 96 calls
\* taxon_set.all_taxon_set_bitmask, which TaxonSet does not have, whenever
\* split is not 0; so the statements after line 97 are never reached
split_as_newick_string(split, s) ==
    IF Len(labels(s)) > 0
    THEN [err |-> "NameError", out |-> NoRender]
    ELSE IF split = 0
    THEN [err |-> NoErr, out |-> [kind |-> "single", left |-> labels(s), right |-> <<>>]]
    ELSE [err |-> "AttributeError", out |-> NoRender]

SplitAsNewickString(split) ==
    LET r == split_as_newick_string(split, taxa)
    IN  /\ call' = [Called("split_as_newick_string") EXCEPT
                       !.split = split, !.err = r.err, !.out = r.out]
        /\ UNCHANGED regVars
        /\ KeepWindows

\* ------------------------------------------------------- specification
\* the calls that change the TaxonSet or a Taxon
Next ==
    \/ ToTaxon
    \/ \E label \in Labels, oid \in Oids, req \in BOOLEAN : GetTaxon(label, oid, req)
    \/ \E t \in Objs : AddTaxon(t)
    \/ \E label \in Labels, e \in BOOLEAN : NewTaxon(label, e)
    \/ Clear
    \/ Lock
    \/ Unlock
    \/ GetIsLocked
    \/ \E v \in BOOLEAN : SetIsLocked(v)
    \/ AllTaxaBitmask
    \/ \E t \in Objs : TaxonBitmask(t)

Spec == Init /\ [][Next]_vars

\* the calls of C1's sequences, on the registries that get_taxon, add_taxon,
\* clear, lock and unlock build
StableNext ==
    \/ \E label \in Labels, oid \in Oids, req \in BOOLEAN : GetTaxon(label, oid, req)
    \/ \E t \in Objs : AddTaxon(t)
    \/ Clear
    \/ Lock
    \/ Unlock
    \/ AllTaxaBitmask
    \/ \E t \in Objs : TaxonBitmask(t)

StableSpec == Init /\ [][StableNext]_vars

\* the calls of C14's sequences: every call that adds a Taxon, none that
\* removes one
AppendNext ==
    \/ ToTaxon
    \/ \E label \in Labels, oid \in Oids, req \in BOOLEAN : GetTaxon(label, oid, req)
    \/ \E t \in Objs : AddTaxon(t)
    \/ \E label \in Labels, e \in BOOLEAN : NewTaxon(label, e)
    \/ Lock
    \/ Unlock
    \/ \E t \in Objs : TaxonBitmask(t)

AppendSpec == Init /\ [][AppendNext]_vars

\* two TaxonSets that share Taxon objects
TwoNext ==
    \/ \E label \in Labels, oid \in Oids, req \in BOOLEAN : GetTaxon(label, oid, req)
    \/ \E t \in Objs : TaxonBitmask(t)
    \/ OtherTaxonSet
    \/ \E t \in Objs : OtherAddTaxon(t)
    \/ \E t \in Objs : OtherTaxonBitmask(t)

TwoSpec == Init /\ [][TwoNext]_vars

\* the functions of a TaxonSet's size and labels, on the TaxonSets that
\* new_taxon and clear build
SplitNext ==
    \/ \E label \in Labels, oid \in Oids, req \in BOOLEAN : GetTaxon(label, oid, req)
    \/ \E label \in Labels, e \in BOOLEAN : NewTaxon(label, e)
    \/ Clear
    \/ Labels_
    \/ AllTaxaBitmask
    \/ \E split \in Splits : ComplementSplitBitmask(split)
    \/ \E split \in Splits : SplitAsNewickString(split)

SplitSpec == Init /\ [][SplitNext]_vars


\* ------------------------------------------------------ tree_source_iter
\* A statement of the stream is a well-formed tree statement, named by the
\* tree it denotes, or a malformed one.
Trees == {"t1", "t2"}
Malformed == "malformed"
Statements == Trees \cup {Malformed}

RECURSIVE SeqsUpTo(_, _)
\* the sequences over S of length at most n
SeqsUpTo(S, n) ==
    IF n = 0 THEN {<<>>}
    ELSE LET shorter == SeqsUpTo(S, n - 1)
         IN  shorter \cup {Append(q, x) : q \in {r \in shorter : Len(r) = n - 1}, x \in S}

Streams == SeqsUpTo(Statements, MaxStmts)

\* how a keyword argument reaches the call: not passed, or passed with a value
TaxonSetArgs == {"absent", "None", "given"}
EncodeSplitsArgs == {"absent", "True", "False"}

\* tree_source_iter(stream, **kwargs): the function has a yield, so the call
\* runs none of its body and returns a generator
TreeSourceIter ==
    /\ gen.pc = "idle"
    /\ \E stream \in Streams, ts \in TaxonSetArgs, es \in EncodeSplitsArgs :
        gen' = [NoGen EXCEPT !.pc = "created", !.stream = stream,
                             !.taxon_set = ts, !.encode_splits = es]
    /\ UNCHANGED <<regVars, call, histVars, other, writer>>

\* the test with "taxon_set is not None" written for "taxon_set is None"
EncodeSplitsWithoutTaxonSet_inverted(g) ==
    LET taxon_set == IF g.taxon_set = "given" THEN "given" ELSE "None"
    IN  g.encode_splits # "absent" /\ taxon_set # "None"

\* lines 67-72: taxon_set is None unless the keyword passes a TaxonSet, and the
\* test is '"encode_splits" in kwargs and taxon_set is None'
EncodeSplitsWithoutTaxonSet(g) ==
    LET taxon_set == IF g.taxon_set = "given" THEN "given" ELSE "None"
    IN  g.encode_splits # "absent" /\ taxon_set = "None"

\* nexustokenizer.parse_tree_from_stream on the tokenizer of generator g:
\* the next statement's tree, None when no statement is left, or a ParseError;
\* the tokenizer's eof flag is up after its read hit the end of the stream,
\* which after the last statement may happen at once or at the next read
ParseTreeFromStream(g) ==
    IF g.pos >= Len(g.stream)
    THEN {[tree |-> "None", pos |-> g.pos, eof |-> TRUE, err |-> NoErr]}
    ELSE IF g.stream[g.pos + 1] = Malformed
    THEN {[tree |-> "None", pos |-> g.pos + 1, eof |-> e, err |-> "ParseError"] :
             e \in IF g.pos + 1 = Len(g.stream) THEN BOOLEAN ELSE {FALSE}}
    ELSE {[tree |-> g.stream[g.pos + 1], pos |-> g.pos + 1, eof |-> e, err |-> NoErr] :
             e \in IF g.pos + 1 = Len(g.stream) THEN BOOLEAN ELSE {FALSE}}

\* lines 79-84: one turn of "while not newick_stream.eof", from generator g
\* to the generator at its next yield, return or raise
Loop(g) ==
    IF g.eof
    THEN {[g EXCEPT !.pc = "done", !.last = "stop"]}
    ELSE {IF r.err # NoErr
          THEN [g EXCEPT !.pc = "failed", !.last = "error", !.err = r.err,
                         !.pos = r.pos, !.eof = r.eof]
          ELSE IF r.tree # "None"
          THEN [g EXCEPT !.pc = "suspended", !.last = "tree", !.pos = r.pos,
                         !.eof = r.eof, !.yielded = Append(g.yielded, r.tree)]
          ELSE [g EXCEPT !.pc = "done", !.last = "stop", !.pos = r.pos, !.eof = r.eof] :
          r \in ParseTreeFromStream(g)}

\* next() on the generator with "if not newick_stream.eof" written for
\* "while not newick_stream.eof": the body runs once and the generator returns
Pull_if_for_while ==
    /\ gen.pc # "idle"
    /\ UNCHANGED <<regVars, call, histVars, other, writer>>
    /\ IF gen.pc = "created"
       THEN IF EncodeSplitsWithoutTaxonSet(gen)
            THEN gen' = [gen EXCEPT !.pc = "failed", !.last = "error",
                                    !.err = "EncodeSplitsNeedsTaxonSet"]
            ELSE gen' \in Loop(gen)
       ELSE gen' = [gen EXCEPT !.pc = IF gen.pc = "failed" THEN "failed" ELSE "done",
                               !.last = "stop"]

\* next() on the generator
Pull ==
    /\ gen.pc # "idle"
    /\ UNCHANGED <<regVars, call, histVars, other, writer>>
    /\ IF gen.pc = "created"
       THEN IF EncodeSplitsWithoutTaxonSet(gen)
            THEN gen' = [gen EXCEPT !.pc = "failed", !.last = "error",
                                    !.err = "EncodeSplitsNeedsTaxonSet"]
            ELSE \* line 77: the tokenizer opens the stream
                 gen' \in Loop(gen)
       ELSE IF gen.pc = "suspended"
       THEN gen' \in Loop(gen)
       ELSE \* a generator that returned or raised is exhausted
            gen' = [gen EXCEPT !.last = "stop"]

IterNext ==
    \/ TreeSourceIter
    \/ Pull

IterSpec == Init /\ [][IterNext]_vars

\* the caller pulls until the generator is exhausted, as the for loop of
\* NewickReader.read does
IterFairSpec == IterSpec /\ WF_vars(Pull)


\* ------------------------------------------------------- text and numbers
\* A Python string is a sequence of one-character strings.  NoneLabel stands
\* for None where a string is expected.
NoneLabel == <<"<None>">>

\* the truth value of a label or tag
Truthy(x) == x # NoneLabel /\ x # <<>>

\* "%s" % x
PyStr(x) == IF x = NoneLabel THEN <<"N", "o", "n", "e">> ELSE x

\* the string of a sequence of characters
RECURSIVE Text(_)
Text(cs) == IF cs = <<>> THEN "" ELSE cs[1] \o Text(Tail(cs))

\* sep.join(parts)
RECURSIVE Join(_, _)
Join(parts, sep) ==
    IF parts = <<>> THEN <<>>
    ELSE IF Len(parts) = 1 THEN parts[1]
    ELSE parts[1] \o sep \o Join(Tail(parts), sep)

Digit(n) == ToString(n)

\* the decimal digits of a natural number
RECURSIVE NatChars(_)
NatChars(n) == IF n < 10 THEN <<Digit(n)>> ELSE NatChars(n \div 10) \o <<Digit(n % 10)>>

\* An edge length is None, a value that float() converts (an int, a float
\* or a numeric string; its value is ip.fr, fr a sequence of decimal digits,
\* non-negative), or a string that float() rejects with ValueError.
NoLength == [kind |-> "None", ip |-> 0, fr |-> <<>>, s |-> <<>>]
Num(ip, fr) == [kind |-> "num", ip |-> ip, fr |-> fr, s |-> <<>>]
TextLength(s) == [kind |-> "text", ip |-> 0, fr |-> <<>>, s |-> s]

\* the fractional digits of "%f" and of "%0.10f"
InternalDigits == 6
LeafDigits == 10

Pad(ds, d) == [i \in 1..d |-> IF i <= Len(ds) THEN ds[i] ELSE 0]

\* one added to the last of the digits ds; c is the carry out of the first
RECURSIVE IncrDigits(_)
IncrDigits(ds) ==
    IF ds = <<>> THEN [c |-> 1, ds |-> <<>>]
    ELSE LET n == Len(ds)
         IN  IF ds[n] < 9
             THEN [c |-> 0, ds |-> [ds EXCEPT ![n] = ds[n] + 1]]
             ELSE LET r == IncrDigits(SubSeq(ds, 1, n - 1))
                  IN  [c |-> r.c, ds |-> r.ds \o <<0>>]

\* "%.<d>f" % float(x) for a value that is not half-way between two
\* neighbours at d digits: the value rounded to d fractional digits
FormatF(x, d) ==
    LET p == Pad(x.fr, d)
        r == IF Len(x.fr) > d /\ x.fr[d + 1] >= 5 THEN IncrDigits(p) ELSE [c |-> 0, ds |-> p]
    IN  NatChars(x.ip + r.c) \o <<".">> \o [i \in 1..d |-> Digit(r.ds[i])]

\* ------------------------------------------------- texttools (label escaping)
Punctuation == {"(", ")", "[", "]", ",", ":", ";", "'"}

Has(s, chars) == \E i \in 1..Len(s) : s[i] \in chars

\* quote if the label holds punctuation or whitespace that is kept, or an
\* underscore that is to be quoted; otherwise a space becomes an underscore
escape_nexus_token(label, preserve_spaces, quote_underscores) ==
    IF \/ Has(label, Punctuation)
       \/ Has(label, {" "}) /\ (preserve_spaces \/ Has(label, {"_"}))
       \/ Has(label, {"_"}) /\ quote_underscores
    THEN <<"'">> \o Join([i \in 1..Len(label) |->
                            IF label[i] = "'" THEN <<"'", "'">> ELSE <<label[i]>>], <<>>)
                 \o <<"'">>
    ELSE [i \in 1..Len(label) |-> IF label[i] = " " THEN "_" ELSE label[i]]

\* --------------------------------------------------------------- trees
\* A tree is the sequence of its nodes in preorder.  depth is the node's
\* distance from the seed node; has_taxon says that node.taxon is a Taxon
\* and taxon_label is that Taxon's label; label and oid are the node's own;
\* has_edge says that node.edge is an Edge and length is its length.
IsTree(t) ==
    /\ Len(t) >= 1
    /\ t[1].depth = 0
    /\ \A i \in 2..Len(t) : t[i].depth >= 1 /\ t[i].depth <= t[i - 1].depth + 1

Oid(i) == <<"n", Digit(i)>>

\* a node as the parser builds a leaf: a Taxon with a label, an edge
LeafNode(d, i, lab, len) ==
    [depth |-> d, has_taxon |-> TRUE, taxon_label |-> lab, label |-> NoneLabel,
     oid |-> Oid(i), has_edge |-> TRUE, length |-> len]

\* a node as the parser builds an internal node: no Taxon, a label or none
InternalNode(d, i, lab, len) ==
    [depth |-> d, has_taxon |-> FALSE, taxon_label |-> NoneLabel, label |-> lab,
     oid |-> Oid(i), has_edge |-> TRUE, length |-> len]

\* the last node of the subtree of node i
SubtreeEnd(t, i) ==
    IF \E j \in (i + 1)..Len(t) : t[j].depth <= t[i].depth
    THEN Min({j \in (i + 1)..Len(t) : t[j].depth <= t[i].depth}) - 1
    ELSE Len(t)

\* node.child_nodes(), in order
child_nodes(t, i) ==
    LET js == {j \in (i + 1)..SubtreeEnd(t, i) : t[j].depth = t[i].depth + 1}
        Nth[k \in 1..Cardinality(js)] ==
            IF k = 1 THEN Min(js) ELSE Min({j \in js : j > Nth[k - 1]})
    IN  [k \in 1..Cardinality(js) |-> Nth[k]]

\* ------------------------------------------------------------ NewickWriter
choose_display_tag(w, t, i) ==
    LET node == t[i]
        tag == IF node.has_taxon THEN node.taxon_label
               ELSE IF Truthy(node.label) THEN node.label
               ELSE IF Len(child_nodes(t, i)) = 0 THEN node.oid
               ELSE <<>>
    IN  IF Truthy(tag)
        THEN escape_nexus_token(tag, w.preserve_spaces, w.quote_underscores)
        ELSE tag

\* the mutant of WritesLength that tests the length's truth value
WritesLength_if_length(w, node) ==
    /\ node.has_edge /\ w.edge_lengths
    /\ node.length.kind # "None"
    /\ ~(node.length.kind = "num" /\ node.length.ip = 0 /\ \A i \in 1..Len(node.length.fr) : node.length.fr[i] = 0)

\* node.edge and node.edge.length != None and self.edge_lengths
WritesLength(w, node) ==
    node.has_edge /\ node.length.kind # "None" /\ w.edge_lengths

\* the mutant of Precision that formats every length with "%f"
Precision_f_everywhere(leaf) == InternalDigits

\* the digits of the format that compose_node uses for a leaf and for an
\* internal node
Precision(leaf) == IF leaf THEN LeafDigits ELSE InternalDigits

\* statement + ":" + the length, formatted to d digits or, when float()
\* raises ValueError, as it is
WithLength(statement, length, d) ==
    PyStr(statement) \o <<":">> \o
        (IF length.kind = "num" THEN FormatF(length, d) ELSE length.s)

\* the mutant of JoinSubnodes that joins the children last to first
JoinSubnodes_reversed(texts) ==
    <<"(">> \o Join([k \in 1..Len(texts) |-> texts[Len(texts) + 1 - k]], <<",">>) \o <<")">>

\* '(' + ','.join(subnodes) + ')'
JoinSubnodes(texts) == <<"(">> \o Join(texts, <<",">>) \o <<")">>

\* compose_node(node): err is the exception raised, text the value returned
RECURSIVE compose_node(_, _, _)
compose_node(w, t, i) ==
    LET node == t[i]
        kids == child_nodes(t, i)
        subnodes == [k \in 1..Len(kids) |-> compose_node(w, t, kids[k])]
        failed == {k \in 1..Len(kids) : subnodes[k].err # NoErr}
        tag == choose_display_tag(w, t, i)
        joined == JoinSubnodes([k \in 1..Len(kids) |-> subnodes[k].text])
        labelled == IF w.internal_labels THEN joined \o tag ELSE joined
        bare == IF Len(kids) > 0 THEN labelled ELSE tag
        statement == IF WritesLength(w, node)
                     THEN WithLength(bare, node.length,
                                     Precision(Len(kids) = 0))
                     ELSE bare
    IN  IF failed # {}
        THEN [err |-> subnodes[Min(failed)].err, text |-> <<>>]
        ELSE IF \E k \in 1..Len(kids) : subnodes[k].text = NoneLabel
        THEN [err |-> "TypeError", text |-> <<>>]
        ELSE IF Len(kids) > 0 /\ w.internal_labels /\ tag = NoneLabel
        THEN [err |-> "TypeError", text |-> <<>>]
        ELSE [err |-> NoErr, text |-> statement]

\* compose_tree(tree)
compose_tree(w, t) == compose_node(w, t, 1)

\* NewickWriter(dataset=..., edge_lengths=..., ...), the construction of the
\* one writer that the model follows.  attached says that a dataset was
\* given; dataset is the trees of its tree list.
NewickWriterInit(attached, dataset, el, il, ps, qu, ex) ==
    /\ writer.pc = "none"
    /\ writer' = [NoWriter EXCEPT !.pc = "ready",
                                  !.attached = attached,
                                  !.dataset = IF attached THEN dataset ELSE <<>>,
                                  !.edge_lengths = el, !.internal_labels = il,
                                  !.preserve_spaces = ps, !.quote_underscores = qu,
                                  !.exclude_trees = ex]
    /\ UNCHANGED <<regVars, call, histVars, gen, other>>

\* the loop of write_tree_list from tree k on: each tree's statement and
\* ";\n" is written until a compose_node raises
RECURSIVE write_tree_list(_, _, _)
write_tree_list(w, k, stream) ==
    IF w.exclude_trees \/ k > Len(w.dataset)
    THEN [err |-> NoErr, stream |-> stream]
    ELSE LET r == compose_node(w, w.dataset[k], 1)
         IN  IF r.err # NoErr THEN [err |-> r.err, stream |-> stream]
             ELSE IF r.text = NoneLabel THEN [err |-> "TypeError", stream |-> stream]
             ELSE write_tree_list(w, k + 1, stream \o r.text \o <<";", "\n">>)

\* the mutant of Write that reads the keyword before it tests the dataset
Write_setting_before_assert(stream, kw) ==
    LET w == [writer EXCEPT !.preserve_spaces = IF kw = "absent" THEN @ ELSE kw = "True"]
        r == write_tree_list(w, 1, stream)
    IN  /\ writer.pc # "none"
        /\ writer' = IF ~writer.attached
                     THEN [w EXCEPT !.pc = "write", !.before = stream, !.stream = stream,
                                    !.err = "NoDataSet"]
                     ELSE [w EXCEPT !.pc = "write", !.before = stream, !.stream = r.stream,
                                    !.err = r.err]
        /\ UNCHANGED <<regVars, call, histVars, gen, other>>

\* writer.write(stream, preserve_spaces=kw): stream is the content the
\* stream has when the call begins, which the writer record keeps as before
Write(stream, kw) ==
    LET w == [writer EXCEPT !.preserve_spaces = IF kw = "absent" THEN @ ELSE kw = "True"]
        r == write_tree_list(w, 1, stream)
    IN  /\ writer.pc # "none"
        /\ writer' = IF ~writer.attached
                     THEN [writer EXCEPT !.pc = "write", !.before = stream, !.stream = stream,
                                         !.err = "NoDataSet"]
                     ELSE [w EXCEPT !.pc = "write", !.before = stream, !.stream = r.stream,
                                    !.err = r.err]
        /\ UNCHANGED <<regVars, call, histVars, gen, other>>

\* writer.choose_display_tag(node), node the seed node of the tree t
ChooseDisplayTag(t) ==
    /\ writer.pc # "none"
    /\ writer' = [writer EXCEPT !.pc = "tag", !.node = t, !.err = NoErr,
                                !.ret = choose_display_tag(writer, t, 1)]
    /\ UNCHANGED <<regVars, call, histVars, gen, other>>

\* writer.compose_node(node), node the seed node of the tree t
ComposeNode(t) ==
    LET r == compose_node(writer, t, 1)
    IN  /\ writer.pc # "none"
        /\ writer' = [writer EXCEPT !.pc = "compose", !.node = t,
                                    !.err = r.err, !.ret = r.text]
        /\ UNCHANGED <<regVars, call, histVars, gen, other>>

\* ------------------------------------------- the tokenizer and the parser
Structural == {"(", ")", ",", ":", ";"}
Whitespace == {" ", "\n"}

\* the content of the quoted label whose opening quote precedes position i,
\* and the position after its closing quote; '' inside stands for one quote
RECURSIVE QuotedFrom(_, _)
QuotedFrom(cs, i) ==
    IF i > Len(cs) THEN [s |-> <<>>, next |-> i]
    ELSE IF cs[i] = "'"
         THEN IF i < Len(cs) /\ cs[i + 1] = "'"
              THEN LET r == QuotedFrom(cs, i + 2) IN [s |-> <<"'">> \o r.s, next |-> r.next]
              ELSE [s |-> <<>>, next |-> i + 1]
         ELSE LET r == QuotedFrom(cs, i + 1) IN [s |-> <<cs[i]>> \o r.s, next |-> r.next]

\* the last character of the unquoted word that begins at position i
WordEnd(cs, i) ==
    Min({j \in i..Len(cs) : j = Len(cs) \/ cs[j + 1] \in Structural \cup Whitespace \cup {"'"}})

\* the tokens of the characters cs from position i on
RECURSIVE Tokens(_, _)
Tokens(cs, i) ==
    IF i > Len(cs) THEN <<>>
    ELSE IF cs[i] \in Whitespace THEN Tokens(cs, i + 1)
    ELSE IF cs[i] \in Structural
         THEN <<[k |-> "punct", s |-> <<cs[i]>>]>> \o Tokens(cs, i + 1)
    ELSE IF cs[i] = "'"
         THEN LET q == QuotedFrom(cs, i + 1)
              IN  <<[k |-> "quoted", s |-> q.s]>> \o Tokens(cs, q.next)
    ELSE LET e == WordEnd(cs, i)
         IN  <<[k |-> "word", s |-> SubSeq(cs, i, e)]>> \o Tokens(cs, e + 1)

\* the label of a token: an unquoted underscore is a space
TokenLabel(tok) ==
    IF tok.k = "quoted" THEN tok.s
    ELSE [i \in 1..Len(tok.s) |-> IF tok.s[i] = "_" THEN " " ELSE tok.s[i]]

Digits == {Digit(n) : n \in 0..9}
DigitOf(c) == CHOOSE n \in 0..9 : Digit(n) = c

RECURSIVE NatOf(_)
NatOf(cs) == IF cs = <<>> THEN 0 ELSE 10 * NatOf(SubSeq(cs, 1, Len(cs) - 1)) + DigitOf(cs[Len(cs)])

\* the edge length of a token: a number <digits>[.<digits>], else the text
TokenLength(tok) ==
    LET cs == tok.s
        dots == {i \in 1..Len(cs) : cs[i] = "."}
        dot == IF dots = {} THEN Len(cs) + 1 ELSE Min(dots)
        ipart == SubSeq(cs, 1, dot - 1)
        fpart == SubSeq(cs, dot + 1, Len(cs))
    IN  IF /\ tok.k = "word" /\ ipart # <<>>
           /\ \A i \in 1..Len(cs) : i # dot => cs[i] \in Digits
        THEN Num(NatOf(ipart), [i \in 1..Len(fpart) |-> DigitOf(fpart[i])])
        ELSE TextLength(cs)

\* the last node at depth d
LastAt(nodes, d) == Max({j \in 1..Len(nodes) : nodes[j].depth = d})

\* One tree statement, token by token.  nodes is the tree so far, depth the
\* number of open parentheses, cur the node that a label or a length now
\* belongs to (0: none yet), colon whether a length is due.
RECURSIVE ParseFrom(_, _, _, _, _, _)
ParseFrom(toks, i, nodes, depth, cur, colon) ==
    IF i > Len(toks) THEN [err |-> "ParseError", tree |-> <<>>]
    ELSE LET tok == toks[i]
             n == Len(nodes) + 1
         IN  IF tok.k = "punct" /\ tok.s = <<";">>
             THEN IF depth = 0 /\ nodes # <<>> /\ ~colon
                  THEN [err |-> NoErr, tree |-> nodes]
                  ELSE [err |-> "ParseError", tree |-> <<>>]
             ELSE IF colon
             THEN IF tok.k = "punct" \/ cur = 0 THEN [err |-> "ParseError", tree |-> <<>>]
                  ELSE ParseFrom(toks, i + 1, [nodes EXCEPT ![cur].length = TokenLength(tok)],
                                 depth, cur, FALSE)
             ELSE IF tok.k # "punct"
             THEN IF cur = 0
                  THEN ParseFrom(toks, i + 1,
                                 Append(nodes, LeafNode(depth, n, TokenLabel(tok), NoLength)),
                                 depth, n, FALSE)
                  ELSE IF nodes[cur].has_taxon THEN [err |-> "ParseError", tree |-> <<>>]
                  ELSE ParseFrom(toks, i + 1, [nodes EXCEPT ![cur].label = TokenLabel(tok)],
                                 depth, cur, FALSE)
             ELSE IF tok.s = <<"(">>
             THEN IF cur # 0 THEN [err |-> "ParseError", tree |-> <<>>]
                  ELSE ParseFrom(toks, i + 1,
                                 Append(nodes, InternalNode(depth, n, NoneLabel, NoLength)),
                                 depth + 1, 0, FALSE)
             ELSE IF tok.s = <<",">>
             THEN IF cur = 0 \/ depth = 0 THEN [err |-> "ParseError", tree |-> <<>>]
                  ELSE ParseFrom(toks, i + 1, nodes, depth, 0, FALSE)
             ELSE IF tok.s = <<")">>
             THEN IF cur = 0 \/ depth = 0 THEN [err |-> "ParseError", tree |-> <<>>]
                  ELSE ParseFrom(toks, i + 1, nodes, depth - 1, LastAt(nodes, depth - 1), FALSE)
             ELSE IF cur = 0 THEN [err |-> "ParseError", tree |-> <<>>]
                  ELSE ParseFrom(toks, i + 1, nodes, depth, cur, TRUE)

\* the tree of the first statement of the text cs
parse_tree(cs) == ParseFrom(Tokens(cs, 1), 1, <<>>, 0, 0, FALSE)

\* --------------------------------------------------- inputs of the writer
\* lengths: None, the int 0, 1.0, two values that "%f" rounds (one of them
\* with a carry into the integer part) and a string that is no number
Lengths ==
    {NoLength, Num(0, <<>>), Num(1, <<0>>),
     Num(0, <<1, 2, 3, 4, 5, 6, 7>>), Num(0, <<9, 9, 9, 9, 9, 9, 9>>),
     TextLength(<<"?">>)}

\* labels of a node's Taxon: None, "" and a name; labels of the node
\* itself: None and a name that holds a space
TaxonLabels == {NoneLabel, <<>>, <<"A">>}
NodeLabels == {NoneLabel, <<"a", " ", "b">>}

\* any node, with no child or with two
AnyNodes ==
    {n \in [depth : {0}, has_taxon : BOOLEAN, taxon_label : TaxonLabels,
            label : NodeLabels, oid : {Oid(1)}, has_edge : BOOLEAN, length : Lengths] :
        /\ ~n.has_taxon => n.taxon_label = NoneLabel
        /\ ~n.has_edge => n.length = NoLength}

NodeInputs ==
    {<<n>> \o kids : n \in AnyNodes,
                     kids \in {<<>>,
                               <<LeafNode(1, 2, <<"B">>, Num(2, <<0>>)),
                                 LeafNode(1, 3, <<"C">>, NoLength)>>}}

\* the trees that the parser builds, up to MaxNodes nodes: every leaf has a
\* labelled Taxon (one label holds a space, the other an underscore), an
\* internal node has a label or none, a length is not set or is a number
\* (one that "%f" rounds)
LeafLabels == <<<<"a", " ", "b">>, <<"c", "_", "d">>>>
InternalLabels == <<NoneLabel, <<"D">>>>
ParsedLengths == {NoLength, Num(0, <<1, 2, 3, 4, 5, 6, 7>>)}

Shapes(n) ==
    {d \in [1..n -> 0..(n - 1)] :
        d[1] = 0 /\ \A i \in 2..n : d[i] >= 1 /\ d[i] <= d[i - 1] + 1}

TreesOfSize(n) ==
    {[i \in 1..n |->
        IF i = n \/ d[i + 1] <= d[i]
        THEN LeafNode(d[i], i, LeafLabels[k[i]], len[i])
        ELSE InternalNode(d[i], i, InternalLabels[k[i]], len[i])] :
            d \in Shapes(n), k \in [1..n -> 1..2], len \in [1..n -> ParsedLengths]}

ParsedTrees == UNION {TreesOfSize(n) : n \in 1..MaxNodes}

\* "(A:1.0,(B:2.0,C:3.0)D:0.5);" and the tree parsed from it
ExampleText ==
    <<"(", "A", ":", "1", ".", "0", ",", "(", "B", ":", "2", ".", "0", ",",
      "C", ":", "3", ".", "0", ")", "D", ":", "0", ".", "5", ")", ";">>

ExampleTree == parse_tree(ExampleText).tree

\* the contents of a stream before a write: empty, or a blank line
Streams0 == {<<>>, <<"\n">>}

\* a default-configured writer on one parsed tree, or a writer with any
\* options on no dataset, an empty one or the example tree, and its writes
WriterNext ==
    \/ /\ writer.pc = "none"
       /\ \E t \in ParsedTrees : NewickWriterInit(TRUE, <<t>>, TRUE, TRUE, FALSE, TRUE, FALSE)
    \/ /\ writer.pc = "none"
       /\ \E attached, el, il, ps, qu, ex \in BOOLEAN :
          \E ds \in {<<>>, <<ExampleTree>>, <<ExampleTree, ExampleTree>>} :
              NewickWriterInit(attached, ds, el, il, ps, qu, ex)
    \/ \E stream \in Streams0, kw \in {"absent", "True", "False"} : Write(stream, kw)

WriterSpec == Init /\ [][WriterNext]_vars

\* a writer with any options, composing single nodes
NodeNext ==
    \/ \E el, il, ps, qu \in BOOLEAN : NewickWriterInit(FALSE, <<>>, el, il, ps, qu, FALSE)
    \/ \E t \in NodeInputs : ChooseDisplayTag(t)
    \/ \E t \in NodeInputs : ComposeNode(t)

NodeSpec == Init /\ [][NodeNext]_vars

\* ------------------------------------------------------------ properties
Members == {taxa[i] : i \in 1..Len(taxa)}

Ok(c) == c.err = NoErr

\* the calls of C1's sequences
StableOps == {"taxon_bitmask", "get_taxon", "all_taxa_bitmask"}

\* C1 -- bitmask stability.  Between lock() and the next unlock(), a call of
\* taxon_bitmask, get_taxon or all_taxa_bitmask leaves the registry's members
\* and order alone and leaves every cached bitmask of a member as it is;
\* taxon_bitmask on a member returns a value and that value is the bitmask
\* cached on the member after the call (so the first value returned for a
\* member is the value every later call returns); and all_taxa_bitmask
\* returns 2^N - 1 for the N members.
C1_BitmaskStability ==
    [][(winLocked /\ call'.op \in StableOps) =>
        /\ taxa' = taxa
        /\ \A t \in Members :
              taxon[t].clade_mask # NoMask => taxon'[t].clade_mask = taxon[t].clade_mask
        /\ (call'.op = "taxon_bitmask" /\ call'.tx \in Members) =>
              /\ Ok(call')
              /\ call'.ret # NoValue
              /\ call'.ret = taxon'[call'.tx].clade_mask
        /\ call'.op = "all_taxa_bitmask" => call'.ret = (2 ^ Len(taxa)) - 1]_vars

\* a locked registry of two taxa whose second member was just given its bitmask
C1_Witness ==
    /\ winLocked
    /\ Len(taxa) = 2
    /\ call.op = "taxon_bitmask"
    /\ call.tx = taxa[2]
    /\ call.ret = 2

\* C2 -- complement law.  For a registry of N taxa and a split s in
\* 0..2^N - 1, with c the value complement_split_bitmask(s) returned:
\* complement_split_bitmask(c) = s, s | c = all_taxa_bitmask(), s & c = 0.
C2_ComplementLaw ==
    LET n == Len(taxa)
        s == call.split
        c == call.ret
    IN  (call.op = "complement_split_bitmask" /\ s \in 0..((2 ^ n) - 1)) =>
            /\ c >= 0
            /\ complement_split_bitmask(c, n) = s
            /\ BitOr(s, c) = all_taxa_bitmask(n)
            /\ BitAnd(s, c) = 0

\* the complement of the split {taxon 0} in a registry of two taxa
C2_Witness ==
    /\ call.op = "complement_split_bitmask"
    /\ Len(taxa) = 2
    /\ call.split = 1
    /\ call.ret = 2


\* member k carries the oid or the label that the caller gave
GivenMatch(k, label, oid) ==
    \/ oid # NoOid /\ taxon[k].oid = oid
    \/ label # NoLabel /\ taxon[k].label = label

\* the positions (1-based) of the members that carry the given oid or label
GivenPositions(label, oid) == {i \in 1..Len(taxa) : GivenMatch(taxa[i], label, oid)}

\* a find-or-create call: get_taxon with taxon_required and an oid or a label
FindOrCreateCalled(c) ==
    /\ c.op = "get_taxon"
    /\ c.flag
    /\ ~(c.label = NoLabel /\ c.oid = NoOid)

\* C3 -- find_or_create on an unlocked registry.  If some member carries the
\* given id or label, the first such member in registry order is returned and
\* the registry is unchanged; otherwise exactly one new Taxon with that
\* label/id is constructed and appended at the end (its index is the previous
\* size, the existing members keep their indices) and it is returned.
C3_FindOrCreate ==
    [][(FindOrCreateCalled(call') /\ is_mutable) =>
        LET hits == GivenPositions(call'.label, call'.oid)
            k == created + 1
        IN  IF hits # {}
            THEN /\ Ok(call')
                 /\ call'.ret = taxa[Min(hits)]
                 /\ taxa' = taxa
                 /\ created' = created
            ELSE /\ Ok(call')
                 /\ created' = k
                 /\ call'.ret = k
                 /\ taxa' = Append(taxa, k)
                 /\ taxon'[k].label = call'.label
                 /\ call'.oid # NoOid => taxon'[k].oid = call'.oid]_vars

\* C4 -- find_or_create on a locked registry with a label/id that no member
\* carries fails with a LookupError, and leaves the registry's members, their
\* order, the lock flag and every cached bitmask unchanged.
C4_LockedLookupFails ==
    [][(FindOrCreateCalled(call') /\ ~is_mutable
            /\ GivenPositions(call'.label, call'.oid) = {}) =>
        /\ call'.err \in LookupError
        /\ taxa' = taxa
        /\ is_mutable' = is_mutable
        /\ \A k \in Objs : taxon'[k].clade_mask = taxon[k].clade_mask]_vars

\* the calls of C5's sequences
LockedOps == {"get_taxon", "new_taxon", "add_taxon", "taxon_bitmask", "labels"}

\* C5 -- locking forbids appends.  Between lock() and the next unlock(), a call
\* of get_taxon, new_taxon, add_taxon, taxon_bitmask or labels neither
\* increases the registry's size nor changes its ordering.
C5_LockForbidsAppends ==
    [][(winLocked /\ call'.op \in LockedOps) =>
        /\ Len(taxa') <= Len(taxa)
        /\ \A i \in 1..Len(taxa') : taxa'[i] = taxa[i]]_vars

\* C6 -- taxon_bitmask on a taxon that is not a member of the registry at the
\* time of the call fails with a LookupError (it returns a value only for
\* members), whatever was called before.
C6_NonMemberBitmaskFails ==
    (call.op = "taxon_bitmask" /\ call.tx \notin Members) =>
        /\ call.err \in LookupError
        /\ call.ret = NoValue

\* bit i of split
Bit(split, i) == (split \div (2 ^ i)) % 2

RECURSIVE Group(_, _, _, _)
\* the labels lbls[i..], in order, whose bit (position - 1) of split is b
Group(lbls, split, b, i) ==
    IF i > Len(lbls) THEN <<>>
    ELSE (IF Bit(split, i - 1) = b THEN <<lbls[i]>> ELSE <<>>) \o Group(lbls, split, b, i + 1)

\* C7 -- split partition completeness.  For a split that is neither 0 nor
\* all_taxa_bitmask(), split_as_newick_string renders two groups: the first
\* holds, in registry order, the labels whose bit is set, the second, in
\* registry order, all the other labels (so the groups are disjoint and
\* together are registry.labels()).
C7_SplitPartition ==
    LET n == Len(taxa)
    IN  (call.op = "split_as_newick_string" /\ call.split > 0
            /\ call.split < (2 ^ n) - 1) =>
            /\ Ok(call)
            /\ call.out.kind = "pair"
            /\ call.out.left = Group(labels(taxa), call.split, 1, 1)
            /\ call.out.right = Group(labels(taxa), call.split, 0, 1)

\* C8 -- trivial split.  For split 0 and for split all_taxa_bitmask(),
\* split_as_newick_string renders one group of all the labels in registry
\* order (so the two renderings are the same).
C8_TrivialSplit ==
    LET n == Len(taxa)
    IN  (call.op = "split_as_newick_string" /\ call.split \in {0, (2 ^ n) - 1}) =>
            /\ Ok(call)
            /\ call.out = [kind |-> "single", left |-> labels(taxa), right |-> <<>>]


\* C9 -- split encoding without a registry.  When encode_splits is passed as
\* True and no TaxonSet is supplied, the iteration fails with a
\* ConfigurationError: the generator never yields a tree and never takes a
\* statement from the stream, and once pulled it has failed with that error.
C9_EncodeSplitsNeedsRegistry ==
    (gen.pc # "idle" /\ gen.encode_splits = "True" /\ gen.taxon_set # "given") =>
        /\ gen.pos = 0
        /\ gen.yielded = <<>>
        /\ gen.last # "tree"
        /\ gen.pc \in {"created", "failed"}
        /\ gen.pc = "failed" => gen.err \in ConfigurationError

\* the first pull failed, on a stream that holds two statements
C9_Witness ==
    /\ gen.pc = "failed"
    /\ gen.err = "EncodeSplitsNeedsTaxonSet"
    /\ gen.encode_splits = "True"
    /\ gen.taxon_set = "absent"
    /\ Len(gen.stream) = 2

Finished == {"done", "failed"}

\* C10 -- lazy, finite, non-restartable sequence.  A pull that yields a tree
\* has taken exactly one statement from the stream, the next one, and yields
\* that statement's tree; the generator returns only when every statement of
\* the stream has been taken; once it has returned, a pull yields nothing and
\* takes nothing; and a generator that is pulled eventually returns or raises.
C10_LazyFiniteSequence ==
    /\ [][(gen'.last = "tree") =>
            /\ gen.pc \in {"created", "suspended"}
            /\ gen'.pos = gen.pos + 1
            /\ gen'.pos <= Len(gen.stream)
            /\ gen'.yielded = Append(gen.yielded, gen.stream[gen'.pos])]_gen
    /\ [][(gen'.pc = "done" /\ gen.pc # "done") => gen'.pos = Len(gen.stream)]_gen
    /\ [][(gen.pc = "done") =>
            /\ gen'.pc = "done"
            /\ gen'.last = "stop"
            /\ gen'.yielded = gen.yielded
            /\ gen'.pos = gen.pos]_gen
    /\ (gen.pc = "created") ~> (gen.pc \in Finished)

\* both trees of a two-statement stream were yielded, in order, and the
\* generator has returned
C10_Witness ==
    /\ gen.pc = "done"
    /\ gen.stream = <<"t1", "t2">>
    /\ gen.yielded = <<"t1", "t2">>
    /\ gen.pos = 2


\* C14 -- cached bitmasks under appends.  After any sequence of get_taxon,
\* new_taxon, add_taxon, lock, unlock and taxon_bitmask calls, every member
\* with a cached bitmask has the bitmask 1 << (its index); so the cached
\* bitmasks of distinct members differ, each has a single bit, and each is
\* contained in all_taxa_bitmask().
C14_CachedMaskIsIndexBit ==
    \A i \in 1..Len(taxa) :
        LET mask == taxon[taxa[i]].clade_mask
        IN  mask # NoMask =>
                /\ mask = 2 ^ (i - 1)
                /\ BitAnd(mask, all_taxa_bitmask(Len(taxa))) = mask
                /\ \A j \in 1..Len(taxa) :
                      j # i => taxon[taxa[j]].clade_mask # mask

\* both members of a registry of two have their bitmasks cached
C14_Witness ==
    /\ Len(taxa) = 2
    /\ taxon[taxa[1]].clade_mask = 1
    /\ taxon[taxa[2]].clade_mask = 2

\* C17 -- clear() removes all taxa: after clear() the registry has no
\* members, its size is 0 and all_taxa_bitmask() is 0.
C17_ClearRemovesAll ==
    call.op = "clear" =>
        /\ Len(taxa) = 0
        /\ all_taxa_bitmask(Len(taxa)) = 0

\* an append was refused because the registry is immutable
Refused(c) ==
    \/ c.op = "new_taxon" /\ c.err = "ImmutableTaxonIndex"
    \/ c.op = "get_taxon" /\ c.err = "TaxonNotFound"

\* a call that appends unless the registry refuses: new_taxon with a label
\* that need not be new, or find-or-create of a label and oid that no member
\* has
TriesAppend(c) ==
    \/ c.op = "new_taxon" /\ ~c.flag
    \/ FindOrCreateCalled(c) /\ MatchPositions(c.label, c.oid) = {}

\* C18 -- is_locked reflects the lock state.  Read right after lock() it is
\* true, right after unlock() it is false, and right after the assignment
\* is_locked = v the registry refuses an append exactly when v is true.
C18_IsLockedReflectsLock ==
    [][/\ (call.op = "lock" /\ call'.op = "get_is_locked") => call'.flag
       /\ (call.op = "unlock" /\ call'.op = "get_is_locked") => ~call'.flag
       /\ (call.op = "set_is_locked" /\ TriesAppend(call')) =>
             (Refused(call') <=> call.flag)]_vars

\* C20 -- no split encoding, no registry.  When encode_splits is absent or
\* passed as False and no TaxonSet is supplied, the iteration raises no
\* configuration error: a pull parses the stream.
C20_NoEncodeSplitsNoError ==
    (gen.encode_splits \in {"absent", "False"} /\ gen.taxon_set # "given") =>
        gen.err \notin ConfigurationError


OtherMembers == {other[i] : i \in 1..Len(other)}

\* C19 -- a bitmask depends only on the registry asked.  For a Taxon that is a
\* member of both registries, at different indices, taxon_bitmask on either
\* registry returns 1 << (the taxon's index in that registry).
C19_MaskOfAskedRegistry ==
    LET t == call.tx
    IN  (call.op \in {"taxon_bitmask", "other.taxon_bitmask"}
            /\ t \in Members /\ t \in OtherMembers
            /\ SeqIndex(taxa, t) # SeqIndex(other, t)) =>
            /\ Ok(call)
            /\ call.ret = 2 ^ (IF call.op = "taxon_bitmask"
                               THEN SeqIndex(taxa, t) ELSE SeqIndex(other, t))

\* the tag that display-tag selection promises for the seed node of t: the
\* first non-empty of the taxon's label, the node's label and, for a leaf,
\* the node's oid
PromisedTag(t) ==
    LET n == t[1]
    IN  IF n.has_taxon /\ Truthy(n.taxon_label) THEN n.taxon_label
        ELSE IF Truthy(n.label) THEN n.label
        ELSE IF Len(t) = 1 THEN n.oid
        ELSE <<>>

\* C15 -- every leaf is labelled.  choose_display_tag on a leaf returns a
\* non-empty tag, the escaped first non-empty of taxon label, node label and
\* node oid; on an internal node with neither taxon nor label it returns "".
C15_LeafAlwaysLabelled ==
    writer.pc = "tag" =>
        LET t == writer.node
        IN  /\ Len(t) = 1 =>
                /\ Truthy(writer.ret)
                /\ writer.ret = escape_nexus_token(PromisedTag(t), writer.preserve_spaces,
                                                   writer.quote_underscores)
            /\ (Len(t) > 1 /\ ~t[1].has_taxon /\ ~Truthy(t[1].label)) => writer.ret = <<>>

\* the characters of s after its last occurrence of the character c, or all
\* of s when c does not occur
AfterLast(s, c) ==
    LET ps == {i \in 1..Len(s) : s[i] = c}
    IN  IF ps = {} THEN s ELSE SubSeq(s, Max(ps) + 1, Len(s))

\* C16 -- edge length rendering in compose_node.  The ":length" suffix is
\* absent exactly when the edge has no length or edge lengths are disabled
\* (a zero length is rendered); a numeric length is rendered with 10
\* fractional digits on a leaf and 6 on an internal node; a length that
\* float() rejects is rendered as its text, and does not make the call fail.
C16_EdgeLengthRendering ==
    writer.pc = "compose" =>
        LET n == writer.node[1]
            leaf == Len(writer.node) = 1
            own == AfterLast(PyStr(writer.ret), ")")
            suffix == AfterLast(own, ":")
            present == Has(own, {":"})
            wanted == n.has_edge /\ n.length.kind # "None" /\ writer.edge_lengths
        IN  /\ writer.err = NoErr =>
                /\ present <=> wanted
                /\ (wanted /\ n.length.kind = "num") =>
                      /\ suffix = FormatF(n.length, IF leaf THEN 10 ELSE 6)
                      /\ Len(AfterLast(suffix, ".")) = IF leaf THEN 10 ELSE 6
                /\ (wanted /\ n.length.kind = "text") => suffix = n.length.s
            /\ writer.err # NoErr => (~leaf /\ n.has_taxon /\ n.taxon_label = NoneLabel)

\* a leaf whose length is the int 0 has been composed with its length
C16_Witness ==
    /\ writer.pc = "compose" /\ writer.err = NoErr /\ writer.edge_lengths
    /\ Len(writer.node) = 1
    /\ writer.node[1].length = Num(0, <<>>)
    /\ AfterLast(writer.ret, ":") = <<"0", ".", "0", "0", "0", "0", "0", "0", "0", "0", "0", "0">>


\* a write by a default-configured writer of the one tree of its dataset to
\* an empty stream has returned
DefaultWrite ==
    /\ writer.pc = "write" /\ writer.attached /\ Len(writer.dataset) = 1
    /\ writer.edge_lengths /\ writer.internal_labels /\ writer.quote_underscores
    /\ ~writer.preserve_spaces /\ ~writer.exclude_trees
    /\ writer.before = <<>>

\* the statement that the original claim C11 makes: the tree parsed from
\* "(A:1.0,(B:2.0,C:3.0)D:0.5);" is written by a default-configured writer
\* with 6 fractional digits on every edge length
C11_SixDigitsEverywhere ==
    (DefaultWrite /\ writer.dataset = <<ExampleTree>>) =>
        /\ writer.err = NoErr
        /\ Text(writer.stream) = "(A:1.000000,(B:2.000000,C:3.000000)D:0.500000);\n"

\* C11 -- as amended: the tree parsed from "(A:1.0,(B:2.0,C:3.0)D:0.5);" is
\* written by a default-configured writer as
\* "(A:1.0000000000,(B:2.0000000000,C:3.0000000000)D:0.500000);\n": 10
\* fractional digits on the edge length of a leaf, 6 on that of an internal
\* node.
C11_LeavesTenInternalSix ==
    (DefaultWrite /\ writer.dataset = <<ExampleTree>>) =>
        /\ writer.err = NoErr
        /\ Text(writer.stream) =
              "(A:1.0000000000,(B:2.0000000000,C:3.0000000000)D:0.500000);\n"

C11_Witness ==
    /\ DefaultWrite /\ writer.dataset = <<ExampleTree>>
    /\ Len(ExampleTree) = 5
    /\ ExampleTree[2] = LeafNode(1, 2, <<"A">>, Num(1, <<0>>))
    /\ ExampleTree[3] = InternalNode(1, 3, <<"D">>, Num(0, <<5>>))
    /\ Len(writer.stream) > 0

LeafPositions(t) == {i \in 1..Len(t) : Len(child_nodes(t, i)) = 0}

\* the number of leaves of t whose taxon has the label lab
LeafLabelCount(t, lab) == Cardinality({i \in LeafPositions(t) : t[i].taxon_label = lab})

RECURSIVE DigitsValue(_)
DigitsValue(ds) ==
    IF ds = <<>> THEN 0 ELSE 10 * DigitsValue(SubSeq(ds, 1, Len(ds) - 1)) + ds[Len(ds)]

\* a length in units of 10^-7, and whether it has no digit beyond the 7th
Scaled(x) == x.ip * 10 ^ 7 + DigitsValue(Pad(x.fr, 7))
NoFinerDigits(x) == \A i \in 1..Len(x.fr) : i > 7 => x.fr[i] = 0

Abs(n) == IF n < 0 THEN 0 - n ELSE n

\* C12 -- round trip.  For a tree that the parser builds, the text that a
\* default-configured writer composes parses into a tree with the same
\* topology in the same child order, the same multiset of leaf labels, a
\* length on exactly the edges that had one, and each length equal to the
\* original within the precision of its format (half a unit of the 10th
\* fractional digit on a leaf, of the 6th on an internal node).
C12_RoundTrip ==
    DefaultWrite =>
        LET t == writer.dataset[1]
            r == parse_tree(writer.stream)
            u == r.tree
        IN  /\ writer.err = NoErr
            /\ r.err = NoErr
            /\ Len(u) = Len(t)
            /\ \A i \in 1..Len(t) : u[i].depth = t[i].depth
            /\ \A i \in LeafPositions(t) \cup LeafPositions(u) :
                   /\ LeafLabelCount(u, t[i].taxon_label) = LeafLabelCount(t, t[i].taxon_label)
                   /\ LeafLabelCount(u, u[i].taxon_label) = LeafLabelCount(t, u[i].taxon_label)
            /\ \A i \in 1..Len(t) :
                   /\ (u[i].length.kind = "None") <=> (t[i].length.kind = "None")
                   /\ t[i].length.kind = "num" =>
                         /\ u[i].length.kind = "num"
                         /\ IF i \in LeafPositions(t)
                            THEN Scaled(u[i].length) = Scaled(t[i].length)
                                    /\ NoFinerDigits(u[i].length)
                            ELSE 2 * Abs(Scaled(u[i].length) - Scaled(t[i].length)) <= 10

\* a tree of three nodes, with a label that needs quoting and a length that
\* "%f" rounds on its internal node, has been written
C12_Witness ==
    /\ DefaultWrite /\ writer.err = NoErr
    /\ Len(writer.dataset[1]) = 3
    /\ writer.dataset[1][1].length = Num(0, <<1, 2, 3, 4, 5, 6, 7>>)
    /\ writer.dataset[1][2].depth = 1 /\ writer.dataset[1][3].depth = 1
    /\ writer.dataset[1][2].taxon_label = <<"c", "_", "d">>
    /\ writer.dataset[1][3].taxon_label = <<"a", " ", "b">>
    /\ parse_tree(writer.stream).tree[1].length = Num(0, <<1, 2, 3, 4, 5, 7>>)

\* C13 -- a write on a writer with no dataset fails with a ConfigurationError
\* before anything is written to the stream and before any setting of the
\* writer is changed.
C13_NoDataSetFailsFirst ==
    [][(writer.pc # "none" /\ ~writer.attached /\ writer'.pc = "write") =>
          /\ writer'.err \in ConfigurationError
          /\ writer'.stream = writer'.before
          /\ writer'.preserve_spaces = writer.preserve_spaces
          /\ writer'.edge_lengths = writer.edge_lengths
          /\ writer'.internal_labels = writer.internal_labels
          /\ writer'.quote_underscores = writer.quote_underscores
          /\ writer'.exclude_trees = writer.exclude_trees
          /\ writer'.dataset = writer.dataset /\ writer'.attached = writer.attached]_vars

\* a write on a writer without dataset, to a stream that held a blank line,
\* has failed
C13_Witness ==
    /\ writer.pc = "write" /\ ~writer.attached /\ writer.err = "NoDataSet"
    /\ writer.before = <<"\n">> /\ writer.preserve_spaces


TypeOK ==
    /\ created \in 0..MaxObj
    /\ \A i \in 1..Len(taxa) : taxa[i] \in 1..created
    /\ \A i, j \in 1..Len(taxa) : i # j => taxa[i] # taxa[j]
    /\ is_mutable \in BOOLEAN
    /\ \A i \in 1..Len(other) : other[i] \in 1..created
    /\ \A i, j \in 1..Len(other) : i # j => other[i] # other[j]
    /\ writer.pc \in {"none", "ready", "write", "tag", "compose"}
    /\ \A k \in 1..Len(writer.dataset) : IsTree(writer.dataset[k])

====
